---- MODULE Spec2Model ----
(***************************************************************************)
(* Number guessing game (number_guessing_ai.py): Classic, AI and Duel      *)
(* modes, score calculation, persistent statistics and leaderboard.        *)
(*                                                                         *)
(* Conventions                                                             *)
(*  - Time is counted in whole milliseconds; time values the program       *)
(*    rounds to two decimals are multiples of 10 ms.                       *)
(*  - A JSON value read from a file is an integer, or NoneVal (null), or   *)
(*    StrVal (a string where a number is expected).                        *)
(*  - calculate_score is evaluated in exact arithmetic; Python's binary    *)
(*    floating point can come out one lower where the exact product is     *)
(*    an integer.                                                          *)
(***************************************************************************)
EXTENDS Integers, Sequences, FiniteSets, TLC

\* ------------------------------------------------------------------------
\* Bounds of the model
\* ------------------------------------------------------------------------

\* rounds (Classic, AI, Duel) started in one session
MaxRounds == 2

\* largest range size N of the halving search on [1, N]
MaxRange == 128

\* longest win streak handed to the score calculation
MaxStreak == 12

\* ------------------------------------------------------------------------
\* Values
\* ------------------------------------------------------------------------

NoneVal == -1

StrVal == -2

IsInt(v) == v \notin {NoneVal, StrVal}

Min(a, b) == IF a <= b THEN a ELSE b

Max(a, b) == IF a >= b THEN a ELSE b

\* ------------------------------------------------------------------------
\* Data models
\* ------------------------------------------------------------------------

Difficulty ==
  [ EASY       |-> [label |-> "Easy",       max_attempts |-> 15, base_points |-> 100],
    MEDIUM     |-> [label |-> "Medium",     max_attempts |-> 10, base_points |-> 200],
    HARD       |-> [label |-> "Hard",       max_attempts |-> 5,  base_points |-> 400],
    IMPOSSIBLE |-> [label |-> "Impossible", max_attempts |-> 3,  base_points |-> 1000] ]

DifficultyNames == <<"EASY", "MEDIUM", "HARD", "IMPOSSIBLE">>

GameMode == [CLASSIC |-> "Classic", AI |-> "AI", DUEL |-> "Duel"]

\* GameState(mode, difficulty, answer) with the dataclass defaults
GameState(m, d, a) ==
  [ mode |-> m, difficulty |-> d, answer |-> a, low |-> 1, high |-> 100,
    attempts_used |-> 0, guess_history |-> <<>>, won |-> FALSE ]

\* a budget of one attempt more than max_attempts
attempts_remaining_one_spare(st) ==
  Difficulty[st.difficulty].max_attempts - st.attempts_used + 1

\* GameState.attempts_remaining
attempts_remaining(st) ==
  Difficulty[st.difficulty].max_attempts - st.attempts_used

\* a record_guess that counts every guess twice
record_guess_counted_twice(st, guess) ==
  [st EXCEPT !.guess_history = Append(@, guess), !.attempts_used = @ + 2]

\* GameState.record_guess
record_guess(st, guess) ==
  [st EXCEPT !.guess_history = Append(@, guess), !.attempts_used = @ + 1]

\* PlayerStats() with the dataclass defaults
PlayerStats ==
  [ games_played |-> 0, wins |-> 0, losses |-> 0, total_guesses |-> 0,
    best_time |-> NoneVal, current_streak |-> 0, best_streak |-> 0 ]

StatFields == DOMAIN PlayerStats

LeaderboardEntry(name, sc, d, m, g, t, dt) ==
  [ player_name |-> name, score |-> sc, difficulty |-> d, mode |-> m,
    guesses |-> g, time_seconds |-> t, date |-> dt ]

\* ------------------------------------------------------------------------
\* Persistence layer
\* ------------------------------------------------------------------------

\* The content of player_stats.json.  kind is "missing", "unreadable" (the
\* read fails in the operating system), "undecodable" (bytes that are not
\* text), "badjson", "nonobject" (JSON that is not an object) or "object";
\* for an object, data holds the fields, absent names the fields the object
\* lacks and extra says that it has a key PlayerStats does not know.
StatsFile(k, d, a, x) == [kind |-> k, data |-> d, absent |-> a, extra |-> x]

\* The content of leaderboard.json.  kind is "missing", "unreadable",
\* "undecodable", "badjson", "nonlist" or "list"; for a list, lacking is the
\* index of an entry that lacks a required field (0: none does).
LeaderboardFile(k, es, n) == [kind |-> k, entries |-> es, lacking |-> n]

Returned(v) == [exc |-> "none", value |-> v]

Raised(e, v) == [exc |-> e, value |-> v]

load_stats(file) ==
  IF file.kind = "missing" THEN Returned(PlayerStats)
  ELSE IF file.kind = "unreadable" THEN Raised("PermissionError", PlayerStats)
  ELSE IF file.kind = "undecodable" THEN Raised("UnicodeDecodeError", PlayerStats)
  ELSE IF file.kind = "badjson" THEN Returned(PlayerStats)
  ELSE IF file.kind = "nonobject" THEN Returned(PlayerStats)
  ELSE IF file.extra THEN Returned(PlayerStats)
  ELSE Returned([f \in StatFields |->
                   IF f \in file.absent THEN PlayerStats[f] ELSE file.data[f]])

\* a save that writes nothing
save_stats_nowhere(stats) == StatsFile("missing", PlayerStats, {}, FALSE)

\* save_stats: the file holds the object's fields
save_stats(stats) == StatsFile("object", stats, {}, FALSE)

\* a load that returns no entries whatever the file holds
load_leaderboard_afresh(file) == Returned(<<>>)

load_leaderboard(file) ==
  IF file.kind = "missing" THEN Returned(<<>>)
  ELSE IF file.kind = "unreadable" THEN Raised("PermissionError", <<>>)
  ELSE IF file.kind = "undecodable" THEN Raised("UnicodeDecodeError", <<>>)
  ELSE IF file.kind = "badjson" THEN Returned(<<>>)
  ELSE IF file.kind = "nonlist" THEN Returned(<<>>)
  ELSE IF file.lacking # 0 THEN Returned(<<>>)
  ELSE Returned(file.entries)

\* an insertion that puts an entry ahead of the entries it ties with
InsertByScore_ahead_of_ties(sorted, e) ==
  LET k == Cardinality({i \in 1..Len(sorted) : sorted[i].score > e.score})
  IN  SubSeq(sorted, 1, k) \o <<e>> \o SubSeq(sorted, k + 1, Len(sorted))

\* list.sort(key=score, reverse=True) keeps equal scores in their order:
\* an entry goes after every entry whose score is at least its own
InsertByScore(sorted, e) ==
  LET k == Cardinality({i \in 1..Len(sorted) : sorted[i].score >= e.score})
  IN  SubSeq(sorted, 1, k) \o <<e>> \o SubSeq(sorted, k + 1, Len(sorted))

RECURSIVE SortByScore(_)
SortByScore(entries) ==
  IF entries = <<>> THEN <<>>
  ELSE InsertByScore(SortByScore(SubSeq(entries, 1, Len(entries) - 1)),
                     entries[Len(entries)])

\* comparing an int with a str, or None with anything, raises TypeError
Comparable(entries) ==
  Len(entries) < 2 \/ \A i \in 1..Len(entries) : IsInt(entries[i].score)

LeaderboardCap == 20

\* save_leaderboard without the cut to the top entries
save_leaderboard_uncut(entries) ==
  IF ~Comparable(entries) THEN Raised("TypeError", <<>>)
  ELSE Returned(LeaderboardFile("list", SortByScore(entries), 0))

save_leaderboard(entries) ==
  IF ~Comparable(entries) THEN Raised("TypeError", <<>>)
  ELSE LET sorted == SortByScore(entries)
           top_entries == SubSeq(sorted, 1, Min(LeaderboardCap, Len(sorted)))
       IN  Returned(LeaderboardFile("list", top_entries, 0))

\* ------------------------------------------------------------------------
\* Score calculation
\* ------------------------------------------------------------------------

\* round(seconds, 2) on a time in milliseconds
Round2(ms) == ((ms + 5) \div 10) * 10

\* max(0.3, 1.0 - elapsed / 120) as a fraction of 120000
time_factor(e) == Max(36000, 120000 - e)

\* a score whose efficiency is the share of attempts used
calculate_score_by_used(st, e, streak) ==
  LET d == Difficulty[st.difficulty]
  IN  ((d.base_points \div 100) * (3 * d.max_attempts + 7 * st.attempts_used)
         * time_factor(e) * (10 + Min(streak, 10)))
        \div (d.max_attempts * 120000)

\* int(base * (0.3 + 0.7 * efficiency) * time_factor * streak_bonus), with
\*   0.3 + 0.7 * efficiency = (3 * max + 7 * remaining) / (10 * max)
\*   streak_bonus           = (10 + min(streak, 10)) / 10
\* base_points is a multiple of 100, which cancels the two tenths.
calculate_score(st, e, streak) ==
  LET d == Difficulty[st.difficulty]
      base == d.base_points
      remaining == attempts_remaining(st)
  IN  ((base \div 100) * (3 * d.max_attempts + 7 * remaining)
         * time_factor(e) * (10 + Min(streak, 10)))
        \div (d.max_attempts * 120000)

\* ------------------------------------------------------------------------
\* Stats helpers
\* ------------------------------------------------------------------------

\* _update_stats_win without the max() that raises best_streak
update_stats_win_best_kept(s, st, e_cmp, e_store) ==
  IF \/ ~IsInt(s.games_played) \/ ~IsInt(s.wins) \/ ~IsInt(s.total_guesses)
     \/ ~IsInt(s.current_streak) \/ ~IsInt(s.best_streak)
     \/ s.best_time = StrVal
  THEN Raised("TypeError", s)
  ELSE Returned(
    [ games_played   |-> s.games_played + 1,
      wins           |-> s.wins + 1,
      losses         |-> s.losses,
      total_guesses  |-> s.total_guesses + st.attempts_used,
      current_streak |-> s.current_streak + 1,
      best_streak    |-> s.best_streak,
      best_time      |-> IF s.best_time = NoneVal \/ e_cmp < s.best_time
                         THEN Round2(e_store) ELSE s.best_time ])

\* += 1, max() and < on a field that holds a str or None raise TypeError;
\* e_cmp and e_store are the two readings of state.elapsed
update_stats_win(s, st, e_cmp, e_store) ==
  IF \/ ~IsInt(s.games_played) \/ ~IsInt(s.wins) \/ ~IsInt(s.total_guesses)
     \/ ~IsInt(s.current_streak) \/ ~IsInt(s.best_streak)
     \/ s.best_time = StrVal
  THEN Raised("TypeError", s)
  ELSE Returned(
    [ games_played   |-> s.games_played + 1,
      wins           |-> s.wins + 1,
      losses         |-> s.losses,
      total_guesses  |-> s.total_guesses + st.attempts_used,
      current_streak |-> s.current_streak + 1,
      best_streak    |-> Max(s.best_streak, s.current_streak + 1),
      best_time      |-> IF s.best_time = NoneVal \/ e_cmp < s.best_time
                         THEN Round2(e_store) ELSE s.best_time ])

\* _update_stats_loss without losses += 1
update_stats_loss_uncounted(s, st) ==
  IF ~IsInt(s.games_played) \/ ~IsInt(s.losses) \/ ~IsInt(s.total_guesses)
  THEN Raised("TypeError", s)
  ELSE Returned(
    [s EXCEPT !.games_played = @ + 1,
              !.total_guesses = @ + st.attempts_used,
              !.current_streak = 0])

update_stats_loss(s, st) ==
  IF ~IsInt(s.games_played) \/ ~IsInt(s.losses) \/ ~IsInt(s.total_guesses)
  THEN Raised("TypeError", s)
  ELSE Returned(
    [s EXCEPT !.games_played = @ + 1, !.losses = @ + 1,
              !.total_guesses = @ + st.attempts_used,
              !.current_streak = 0])

\* a search that always guesses the middle of 1..100
next_guess_fixed(lo, hi) == 50

\* a search that tries the numbers of the range in order
next_guess_in_order(lo, hi) == lo

\* the AI's guess, the midpoint of its range: (low + high) // 2
next_guess(lo, hi) == (lo + hi) \div 2

\* math.ceil(math.log2(n)): the least k with 2^k >= n
RECURSIVE CeilLog2From(_, _, _)
CeilLog2From(n, k, p) == IF p >= n THEN k ELSE CeilLog2From(n, k + 1, 2 * p)

CeilLog2(n) == CeilLog2From(n, 0, 1)

\* ------------------------------------------------------------------------
\* Inputs
\* ------------------------------------------------------------------------

\* a line typed at a guess prompt: an integer, other text, or end of input
IntLine(n) == [kind |-> "int", n |-> n]

TextLine == [kind |-> "text", n |-> 0]

EofLine == [kind |-> "eof", n |-> 0]

\* a valid guess that misses the answer
NearMiss(answer) == IF answer > 1 THEN answer - 1 ELSE answer + 1

GuessInputs(answer) ==
  {IntLine(answer), IntLine(NearMiss(answer)), IntLine(0), IntLine(101),
   TextLine, EofLine}

MenuInputs ==
  {"1", "classic", "2", "ai", "3", "duel", "4", "leaderboard",
   "5", "stats", "statistics", "q", "quit", "exit", "0", ""}

DifficultyInputs == {"1", "2", "3", "4", "5", ""}

ResponseInputs == {"h", "higher", "l", "lower", "c", "correct", "y", ""}

NameInputs == {"", "Ann"}

\* readings of the wall clock, in ms since the round started: two that are
\* stored as 10.0 s, one on either side of it, and one stored as 10.01 s
ElapsedSamples == {9996, 10000, 10006}

\* the readings a later call of state.elapsed can return
Later(e) == {t \in ElapsedSamples : t >= e}

Today == "today"

\* ------------------------------------------------------------------------
\* State
\* ------------------------------------------------------------------------

VARIABLES
  pc,               \* where the program is: the prompt it waits at, or a step
  exc,              \* the exception that ended the program, "none" otherwise
  farewell,         \* the farewell line has been printed
  player_name,
  stats_file,       \* player_stats.json
  leaderboard_file, \* leaderboard.json
  rounds,           \* rounds started in this session
  state,            \* the GameState of the round (Classic, Duel)
  ai_low, ai_high, ai_guesses,   \* the AI's side of a Duel
  low, high, attempts,           \* AI mode
  secret,           \* the number the user thinks of in AI mode
  truthful,         \* every response given in AI mode was true of secret
  efficiency,       \* the verdict _show_ai_win prints
  stats,            \* the PlayerStats object of the handler that ends a round
  score,            \* the score of a won round
  elapsed,          \* the latest reading of state.elapsed
  outcome,          \* how the round ended
  history,          \* the outcomes of the Classic and Duel rounds that have
                    \* returned in this session, in order
  shown,            \* the message the last step printed, "" if none of note
  crashed_at        \* where the program was when an exception ended it

vars ==
  << pc, exc, farewell, player_name, stats_file, leaderboard_file, rounds,
     state, ai_low, ai_high, ai_guesses, low, high, attempts, secret,
     truthful, efficiency, stats, score, elapsed, outcome, history,
     shown, crashed_at >>

session == <<farewell, player_name, rounds>>

files == <<stats_file, leaderboard_file>>

duel == <<ai_low, ai_high, ai_guesses>>

aimode == <<low, high, attempts, secret, truthful, efficiency>>

ending == <<stats, score, elapsed>>

NoRound == GameState("none", "EASY", 0)

Prompts ==
  {"name", "menu", "difficulty", "guess", "ai_ready", "ai_feedback",
   "return_prompt"}

Steps == {"win_update", "save_score"}

InitWith(sf, lf, started) ==
  /\ pc = "name"
  /\ exc = "none"
  /\ farewell = FALSE
  /\ player_name = ""
  /\ stats_file = sf
  /\ leaderboard_file = lf
  /\ rounds = started
  /\ state = NoRound
  /\ ai_low = 1
  /\ ai_high = 100
  /\ ai_guesses = <<>>
  /\ low = 1
  /\ high = 100
  /\ attempts = 0
  /\ secret = 0
  /\ truthful = TRUE
  /\ efficiency = ""
  /\ stats = PlayerStats
  /\ score = 0
  /\ elapsed = 0
  /\ outcome = "none"
  /\ history = <<>>
  /\ shown = ""
  /\ crashed_at = "nowhere"

MissingStats == StatsFile("missing", PlayerStats, {}, FALSE)

MissingLeaderboard == LeaderboardFile("missing", <<>>, 0)

\* a first run: neither file exists
Init == InitWith(MissingStats, MissingLeaderboard, 0)

\* an exception nothing catches ends the program
Crash(e) == pc' = "crashed" /\ exc' = e /\ crashed_at' = pc /\ shown' = "Traceback"

\* the step goes on
Goes(message) == shown' = message /\ UNCHANGED <<exc, crashed_at>>

\* ------------------------------------------------------------------------
\* Session: name prompt, main menu, return prompt
\* ------------------------------------------------------------------------

\* get_player_name
GetPlayerName(raw) ==
  /\ pc = "name"
  /\ player_name' = IF raw = "" THEN "Anonymous" ELSE raw
  /\ pc' = "menu"
  /\ Goes("")
  /\ UNCHANGED <<farewell, rounds, history, files, state, duel, aimode, ending,
                 outcome>>

\* main: choice 1 / 3, up to the difficulty prompt of play_classic / play_duel
MenuPlay(choice) ==
  /\ pc = "menu"
  /\ choice \in {"1", "classic", "3", "duel"}
  /\ rounds < MaxRounds
  /\ rounds' = rounds + 1
  /\ state' = GameState(IF choice \in {"1", "classic"}
                        THEN GameMode.CLASSIC ELSE GameMode.DUEL, "EASY", 0)
  /\ pc' = "difficulty"
  /\ Goes("")
  /\ UNCHANGED <<farewell, player_name, history, files, duel, aimode, ending,
                 outcome>>

\* main: choice 2, up to the press-Enter prompt of play_ai_mode
MenuAI(choice) ==
  /\ pc = "menu"
  /\ choice \in {"2", "ai"}
  /\ rounds < MaxRounds
  /\ rounds' = rounds + 1
  /\ state' = GameState(GameMode.AI, "EASY", 0)
  /\ pc' = "ai_ready"
  /\ Goes("")
  /\ UNCHANGED <<farewell, player_name, history, files, duel, aimode, ending,
                 outcome>>

\* format_time on a time that is not a number raises TypeError
LeaderboardDisplayFails(entries) ==
  \E i \in 1..Min(LeaderboardCap, Len(entries)) : ~IsInt(entries[i].time_seconds)

\* main: choice 4, show_leaderboard
MenuLeaderboard(choice) ==
  /\ pc = "menu"
  /\ choice \in {"4", "leaderboard"}
  /\ LET r == load_leaderboard(leaderboard_file)
     IN  IF r.exc # "none" THEN Crash(r.exc)
         ELSE IF LeaderboardDisplayFails(r.value) THEN Crash("TypeError")
         ELSE Goes("LEADERBOARD") /\ UNCHANGED pc
  /\ UNCHANGED <<session, history, files, state, duel, aimode, ending, outcome>>

\* progress_bar, win_rate, avg_guesses and format_time compute with the
\* fields; the other fields are only printed
StatisticsDisplayFails(s) ==
  /\ s.games_played # 0
  /\ \/ ~IsInt(s.games_played) \/ ~IsInt(s.wins) \/ ~IsInt(s.total_guesses)
     \/ s.best_time = StrVal

\* main: choice 5, show_statistics
MenuStatistics(choice) ==
  /\ pc = "menu"
  /\ choice \in {"5", "stats", "statistics"}
  /\ LET r == load_stats(stats_file)
     IN  IF r.exc # "none" THEN Crash(r.exc)
         ELSE IF StatisticsDisplayFails(r.value) THEN Crash("TypeError")
         ELSE Goes("STATISTICS") /\ UNCHANGED pc
  /\ UNCHANGED <<session, history, files, state, duel, aimode, ending, outcome>>

\* main: q / quit / exit
MenuQuit(choice) ==
  /\ pc = "menu"
  /\ choice \in {"q", "quit", "exit"}
  /\ farewell' = TRUE
  /\ pc' = "done"
  /\ Goes("Thanks for playing! See you next time.")
  /\ UNCHANGED <<player_name, rounds, history, files, state, duel, aimode,
                 ending, outcome>>

\* main: any other choice prints "Invalid choice" and asks again
MenuInvalid(choice) ==
  /\ pc = "menu"
  /\ choice \notin {"1", "classic", "2", "ai", "3", "duel", "4", "leaderboard",
                    "5", "stats", "statistics", "q", "quit", "exit"}
  /\ Goes("Invalid choice. Try again.")
  /\ UNCHANGED <<pc, session, history, files, state, duel, aimode, ending, outcome>>

\* the objects of a round are gone
Dropped ==
  /\ state' = NoRound
  /\ ai_low' = 1 /\ ai_high' = 100 /\ ai_guesses' = <<>>
  /\ low' = 1 /\ high' = 100 /\ attempts' = 0
  /\ secret' = 0 /\ truthful' = TRUE /\ efficiency' = ""
  /\ stats' = PlayerStats /\ score' = 0 /\ elapsed' = 0

\* main: "Press Enter to return to menu"
ReturnToMenu ==
  /\ pc = "return_prompt"
  /\ pc' = "menu"
  /\ Dropped
  /\ outcome' = "none"
  /\ Goes("")
  /\ UNCHANGED <<session, history, files>>

\* choose_difficulty, then the round starts with a random answer
ChooseDifficulty(choice, answer) ==
  /\ pc = "difficulty"
  /\ IF choice \in {"1", "2", "3", "4"}
     THEN /\ state' = GameState(state.mode,
                 DifficultyNames[CHOOSE i \in 1..4 : choice = ToString(i)], answer)
          /\ ai_low' = 1 /\ ai_high' = 100 /\ ai_guesses' = <<>>
          /\ pc' = "guess"
          /\ Goes("")
     ELSE Goes("Invalid choice. Enter 1-4.") /\ UNCHANGED <<state, duel, pc>>
  /\ UNCHANGED <<session, history, files, aimode, ending, outcome>>

\* ------------------------------------------------------------------------
\* End of a round: statistics and leaderboard
\* ------------------------------------------------------------------------

\* _show_classic_win up to the congratulation: the streak is raised on the
\* loaded stats before the score is calculated
ShowClassicWin(st) ==
  LET r == load_stats(stats_file)
  IN  /\ state' = st
      /\ outcome' = "win"
      /\ UNCHANGED <<files, history>>
      /\ IF r.exc # "none" THEN Crash(r.exc) /\ UNCHANGED ending
         ELSE IF ~IsInt(r.value.current_streak)
         THEN Crash("TypeError") /\ UNCHANGED ending
         ELSE \E e \in Later(elapsed) :
                /\ stats' = [r.value EXCEPT !.current_streak = @ + 1]
                /\ score' = calculate_score(st, e, r.value.current_streak + 1)
                /\ elapsed' = e
                /\ pc' = "win_update"
                /\ Goes("")

\* play_duel, the human's winning guess: the score is calculated with the
\* streak of a first load, the stats object comes from a second load
DuelWin(st) ==
  LET r == load_stats(stats_file)
  IN  /\ state' = st
      /\ outcome' = "win"
      /\ UNCHANGED <<files, history>>
      /\ IF r.exc # "none" THEN Crash(r.exc) /\ UNCHANGED ending
         ELSE IF ~IsInt(r.value.current_streak)
         THEN Crash("TypeError") /\ UNCHANGED ending
         ELSE \E e \in Later(elapsed) :
                /\ stats' = r.value
                /\ score' = calculate_score(st, e, r.value.current_streak)
                /\ elapsed' = e
                /\ pc' = "win_update"
                /\ Goes("")

\* _update_stats_win with save_stats
UpdateStatsWin ==
  /\ pc = "win_update"
  /\ \E e1 \in Later(elapsed) : \E e2 \in Later(e1) :
       LET r == update_stats_win(stats, state, e1, e2)
       IN  IF r.exc # "none"
           THEN Crash(r.exc) /\ UNCHANGED <<stats, stats_file, elapsed>>
           ELSE /\ stats' = r.value
                /\ stats_file' = save_stats(r.value)
                /\ elapsed' = e2
                /\ pc' = "save_score"
                /\ Goes("")
  /\ UNCHANGED <<session, history, leaderboard_file, state, duel, aimode, score, outcome>>

\* _save_score: load, append, save_leaderboard; the round function returns
SaveScore ==
  /\ pc = "save_score"
  /\ LET r == load_leaderboard(leaderboard_file)
     IN  IF r.exc # "none"
         THEN Crash(r.exc) /\ UNCHANGED <<leaderboard_file, elapsed, history>>
         ELSE \E e \in Later(elapsed) :
                LET entries == Append(r.value,
                      LeaderboardEntry(player_name, score,
                                       Difficulty[state.difficulty].label,
                                       state.mode, state.attempts_used,
                                       Round2(e), Today))
                    w == save_leaderboard(entries)
                IN  IF w.exc # "none"
                    THEN Crash(w.exc) /\ UNCHANGED <<leaderboard_file, elapsed, history>>
                    ELSE /\ leaderboard_file' = w.value
                         /\ history' = Append(history, "win")
                         /\ elapsed' = e
                         /\ pc' = "return_prompt"
                         /\ Goes("")
  /\ UNCHANGED <<session, stats_file, state, duel, aimode, stats, score, outcome>>

\* a lost round: load_stats, then _update_stats_loss with save_stats, then
\* the round function returns.  reset is _show_classic_loss's own
\* current_streak = 0 on the loaded object.
RecordLoss(st, how, reset) ==
  LET r == load_stats(stats_file)
      s == IF reset THEN [r.value EXCEPT !.current_streak = 0] ELSE r.value
      u == update_stats_loss(s, st)
  IN  /\ state' = st
      /\ outcome' = how
      /\ UNCHANGED <<leaderboard_file, score, elapsed>>
      /\ IF r.exc # "none"
         THEN Crash(r.exc) /\ UNCHANGED <<stats, stats_file, history>>
         ELSE IF u.exc # "none"
         THEN Crash(u.exc) /\ stats' = s /\ UNCHANGED <<stats_file, history>>
         ELSE /\ stats' = u.value
              /\ stats_file' = save_stats(u.value)
              /\ history' = Append(history, how)
              /\ pc' = "return_prompt"
              /\ Goes("")

ShowClassicLoss(st) == RecordLoss(st, "loss", TRUE)

\* ------------------------------------------------------------------------
\* Classic mode
\* ------------------------------------------------------------------------

\* a guess prompt that takes any integer
ValidGuess_any_integer(inp) == inp.kind = "int"

\* int(raw) succeeds and 1 <= guess <= 100
ValidGuess(inp) == inp.kind = "int" /\ 1 <= inp.n /\ inp.n <= 100

\* play_classic: one pass of the guess loop
ClassicGuess(inp) ==
  /\ pc = "guess"
  /\ state.mode = GameMode.CLASSIC
  /\ attempts_remaining(state) > 0
  /\ IF ~ValidGuess(inp)
     THEN /\ Goes(IF inp.kind = "int" THEN "Out of range!"
                  ELSE "Please enter a valid integer.")
          /\ UNCHANGED <<pc, state, files, ending, outcome, history>>
     ELSE LET st == record_guess(state, inp.n)
          IN  IF inp.n = state.answer
              THEN ShowClassicWin([st EXCEPT !.won = TRUE])
              ELSE IF attempts_remaining(st) > 0
              THEN /\ state' = st
                   /\ Goes("")
                   /\ UNCHANGED <<pc, files, ending, outcome, history>>
              ELSE ShowClassicLoss(st)
  /\ UNCHANGED <<session, duel, aimode>>

\* ------------------------------------------------------------------------
\* Duel mode
\* ------------------------------------------------------------------------

\* play_duel: one turn pair, the human's guess and then the AI's
DuelGuess(inp) ==
  /\ pc = "guess"
  /\ state.mode = GameMode.DUEL
  /\ attempts_remaining(state) > 0
  /\ IF ~ValidGuess(inp)
     THEN /\ Goes(IF inp.kind = "int" THEN "Pick 1-100."
                  ELSE "Enter a valid number.")
          /\ UNCHANGED <<pc, state, files, ending, outcome, history, duel>>
     ELSE LET st == record_guess(state, inp.n)
              ai_guess == next_guess(ai_low, ai_high)
          IN  IF inp.n = state.answer
              THEN DuelWin([st EXCEPT !.won = TRUE]) /\ UNCHANGED duel
              ELSE /\ ai_guesses' = Append(ai_guesses, ai_guess)
                   /\ IF ai_guess = state.answer
                      THEN /\ RecordLoss(st, "ai_win", FALSE)
                           /\ UNCHANGED <<ai_low, ai_high>>
                      ELSE /\ IF ai_guess < state.answer
                              THEN ai_low' = ai_guess + 1 /\ UNCHANGED ai_high
                              ELSE ai_high' = ai_guess - 1 /\ UNCHANGED ai_low
                           /\ IF attempts_remaining(st) > 0
                              THEN /\ state' = st
                                   /\ Goes("")
                                   /\ UNCHANGED <<pc, files, ending, outcome,
                                                  history>>
                              ELSE RecordLoss(st, "draw", FALSE)
  /\ UNCHANGED <<session, aimode>>

\* ------------------------------------------------------------------------
\* AI mode
\* ------------------------------------------------------------------------

\* the user has a number in mind and presses Enter; first pass of the loop
AIReady(number) ==
  /\ pc = "ai_ready"
  /\ secret' = number
  /\ truthful' = TRUE
  /\ low' = 1 /\ high' = 100
  /\ attempts' = 1
  /\ pc' = "ai_feedback"
  /\ Goes("")
  /\ UNCHANGED <<session, history, files, state, duel, efficiency, ending, outcome>>

\* _show_ai_win
show_ai_win(n) ==
  LET optimal == CeilLog2(100)
  IN  IF n <= optimal THEN "Optimal!" ELSE "extra guess(es)"

\* a search that never finds its range empty
range_exhausted_never(lo, hi) == FALSE

\* play_ai_mode: if low > high, after a response
range_exhausted(lo, hi) == lo > hi

\* play_ai_mode: the response to the guess
AIRespond(response) ==
  /\ pc = "ai_feedback"
  /\ low <= high
  /\ LET guess == next_guess(low, high)
     IN  IF response \in {"h", "higher"}
         THEN /\ low' = guess + 1
              /\ truthful' = (truthful /\ guess < secret)
              /\ IF range_exhausted(guess + 1, high)
                 THEN /\ outcome' = "inconsistent"
                      /\ pc' = "return_prompt"
                      /\ Goes("Something doesn't add up!")
                      /\ UNCHANGED attempts
                 ELSE /\ attempts' = attempts + 1
                      /\ Goes("")
                      /\ UNCHANGED <<pc, outcome>>
              /\ UNCHANGED <<high, efficiency>>
         ELSE IF response \in {"l", "lower"}
         THEN /\ high' = guess - 1
              /\ truthful' = (truthful /\ guess > secret)
              /\ IF range_exhausted(low, guess - 1)
                 THEN /\ outcome' = "inconsistent"
                      /\ pc' = "return_prompt"
                      /\ Goes("Something doesn't add up!")
                      /\ UNCHANGED attempts
                 ELSE /\ attempts' = attempts + 1
                      /\ Goes("")
                      /\ UNCHANGED <<pc, outcome>>
              /\ UNCHANGED <<low, efficiency>>
         ELSE IF response \in {"c", "correct"}
         THEN /\ truthful' = (truthful /\ guess = secret)
              /\ efficiency' = show_ai_win(attempts)
              /\ outcome' = "ai_found"
              /\ pc' = "return_prompt"
              /\ Goes("AI WINS!")
              /\ UNCHANGED <<low, high, attempts>>
         ELSE /\ Goes("Enter H, L, or C.")
              /\ UNCHANGED <<pc, low, high, attempts, truthful, efficiency,
                             outcome>>
  /\ UNCHANGED <<session, history, files, state, duel, secret, ending>>

\* ------------------------------------------------------------------------
\* Signals and end of input
\* ------------------------------------------------------------------------

\* Ctrl-C: KeyboardInterrupt is raised where the program is; no handler
\* catches it, neither in the round functions nor in main, and the process
\* ends with its objects
Interrupt ==
  /\ pc \in Prompts \cup Steps
  /\ Crash("KeyboardInterrupt")
  /\ Dropped
  /\ UNCHANGED <<session, history, files, outcome>>

\* input() raises EOFError; only the guess prompts catch it
EndOfInput ==
  /\ pc \in Prompts \ {"guess"}
  /\ Crash("EOFError")
  /\ Dropped
  /\ UNCHANGED <<session, history, files, outcome>>

\* ------------------------------------------------------------------------
\* Specifications
\* ------------------------------------------------------------------------

\* answers drawn by random.randint(1, 100) in a session
TargetSamples == {50, 100}

\* numbers the user thinks of in AI mode in a session
SecretSamples == {37, 100}

\* responses typed in AI mode in a session
ResponseSamples == {"h", "correct", "y"}

\* difficulty choices typed in a session ("4" is Impossible)
DifficultySamples == {"4", "5"}

\* the program with the names, difficulty choices, answers, secret numbers
\* and AI-mode responses drawn from the given sets
Program(names, choices, answers, numbers, responses) ==
  \/ \E raw \in names : GetPlayerName(raw)
  \/ \E choice \in MenuInputs : MenuPlay(choice)
  \/ \E choice \in MenuInputs : MenuAI(choice)
  \/ \E choice \in MenuInputs : MenuLeaderboard(choice)
  \/ \E choice \in MenuInputs : MenuStatistics(choice)
  \/ \E choice \in MenuInputs : MenuQuit(choice)
  \/ \E choice \in MenuInputs : MenuInvalid(choice)
  \/ ReturnToMenu
  \/ \E choice \in choices, answer \in answers : ChooseDifficulty(choice, answer)
  \/ \E inp \in GuessInputs(state.answer) : ClassicGuess(inp)
  \/ \E inp \in GuessInputs(state.answer) : DuelGuess(inp)
  \/ UpdateStatsWin
  \/ SaveScore
  \/ \E number \in numbers : AIReady(number)
  \/ \E response \in responses : AIRespond(response)
  \/ Interrupt
  \/ EndOfInput

\* a session of up to MaxRounds rounds on a first run
Next ==
  Program(NameInputs, DifficultySamples, TargetSamples, SecretSamples,
          ResponseSamples)

Spec == Init /\ [][Next]_vars

\* the last round of a session, with every difficulty, every answer and
\* every secret number
InitRound == InitWith(MissingStats, MissingLeaderboard, MaxRounds - 1)

NextRound == Program({"Ann"}, DifficultyInputs, 1..100, 1..100, ResponseInputs)

SpecRound == InitRound /\ [][NextRound]_vars

\* ------------------------------------------------------------------------
\* Sessions that find files from earlier runs, intact or not
\* ------------------------------------------------------------------------

EarlierStats ==
  [ games_played |-> 3, wins |-> 2, losses |-> 1, total_guesses |-> 9,
    best_time |-> 12340, current_streak |-> 1, best_streak |-> 2 ]

StatsFileSamples ==
  { MissingStats,
    StatsFile("unreadable", PlayerStats, {}, FALSE),
    StatsFile("undecodable", PlayerStats, {}, FALSE),
    StatsFile("badjson", PlayerStats, {}, FALSE),
    StatsFile("nonobject", PlayerStats, {}, FALSE),
    StatsFile("object", EarlierStats, {}, FALSE),
    StatsFile("object", EarlierStats, {}, TRUE),
    StatsFile("object", EarlierStats, {"wins"}, FALSE),
    StatsFile("object", [EarlierStats EXCEPT !.games_played = StrVal], {}, FALSE),
    StatsFile("object", [EarlierStats EXCEPT !.best_streak = NoneVal], {}, FALSE) }

EarlierEntry(i, sc) ==
  LeaderboardEntry(ToString(i), sc, "Hard", "Classic", 2, 5000, "earlier")

\* a full board, sorted, with ten equal scores at the bottom
FullBoard ==
  [i \in 1..LeaderboardCap |-> EarlierEntry(i, IF 2 * i <= LeaderboardCap THEN 500 ELSE 275)]

\* more entries than the cap, in ascending order
LongBoard == [i \in 1..(LeaderboardCap + 2) |-> EarlierEntry(i, 100 * i)]

ShortBoard == <<EarlierEntry(1, 700), EarlierEntry(2, 200)>>

LeaderboardFileSamples ==
  { MissingLeaderboard,
    LeaderboardFile("undecodable", <<>>, 0),
    LeaderboardFile("badjson", <<>>, 0),
    LeaderboardFile("nonlist", <<>>, 0),
    LeaderboardFile("list", <<>>, 0),
    LeaderboardFile("list", ShortBoard, 0),
    LeaderboardFile("list", ShortBoard, 2),
    LeaderboardFile("list", FullBoard, 0),
    LeaderboardFile("list", LongBoard, 0),
    LeaderboardFile("list", [ShortBoard EXCEPT ![1].score = StrVal], 0),
    LeaderboardFile("list", [ShortBoard EXCEPT ![2].time_seconds = StrVal], 0) }

\* a stats file from an earlier run and one round to play, or a leaderboard
\* file from an earlier run and two rounds to play
InitFiles ==
  \/ \E sf \in StatsFileSamples : InitWith(sf, MissingLeaderboard, MaxRounds - 1)
  \/ \E lf \in LeaderboardFileSamples : InitWith(MissingStats, lf, MaxRounds - 2)

SpecFiles == InitFiles /\ [][Next]_vars

\* ------------------------------------------------------------------------
\* The halving search of play_ai_mode on a range [1, N]
\* ------------------------------------------------------------------------

\* the true answer to the AI's guess
TruthfulResponse ==
  LET guess == next_guess(low, high)
  IN  IF guess < secret THEN "higher"
      ELSE IF guess > secret THEN "lower" ELSE "correct"

\* the loop of play_ai_mode entered with low = 1, high = N and a number of
\* the range in mind; state.high keeps N
InitSearch ==
  \E N \in 1..MaxRange : \E T \in 1..N :
    /\ pc = "ai_feedback"
    /\ exc = "none"
    /\ farewell = FALSE
    /\ player_name = "Ann"
    /\ stats_file = MissingStats
    /\ leaderboard_file = MissingLeaderboard
    /\ rounds = 1
    /\ state = [GameState(GameMode.AI, "EASY", 0) EXCEPT !.high = N]
    /\ ai_low = 1
    /\ ai_high = 100
    /\ ai_guesses = <<>>
    /\ low = 1
    /\ high = N
    /\ attempts = 1
    /\ secret = T
    /\ truthful = TRUE
    /\ efficiency = ""
    /\ stats = PlayerStats
    /\ score = 0
    /\ elapsed = 0
    /\ outcome = "none"
    /\ history = <<>>
    /\ shown = ""
    /\ crashed_at = "nowhere"

NextSearch == AIRespond(TruthfulResponse)

SpecSearch == InitSearch /\ [][NextSearch]_vars

\* ------------------------------------------------------------------------
\* calculate_score over its inputs
\* ------------------------------------------------------------------------

\* readings of state.elapsed on both sides of the 84 s where the time factor
\* stops falling
ScoreTimes == {0, 10000, 10004, 60000, 83990, 84000, 84010, 100000, 130000}

\* a won round of any difficulty, any number of attempts used, any elapsed
\* time and any streak, scored
InitScore ==
  \E d \in DOMAIN Difficulty : \E used \in 1..Difficulty[d].max_attempts :
    \E e \in ScoreTimes : \E k \in 0..MaxStreak :
      /\ pc = "scored"
      /\ exc = "none"
      /\ farewell = FALSE
      /\ player_name = "Ann"
      /\ stats_file = MissingStats
      /\ leaderboard_file = MissingLeaderboard
      /\ rounds = 1
      /\ state = [GameState(GameMode.CLASSIC, d, 1) EXCEPT
                    !.attempts_used = used, !.won = TRUE]
      /\ ai_low = 1
      /\ ai_high = 100
      /\ ai_guesses = <<>>
      /\ low = 1
      /\ high = 100
      /\ attempts = 0
      /\ secret = 0
      /\ truthful = TRUE
      /\ efficiency = ""
      /\ stats = [PlayerStats EXCEPT !.current_streak = k]
      /\ score = calculate_score(state, e, k)
      /\ elapsed = e
      /\ outcome = "win"
      /\ history = <<>>
      /\ shown = ""
      /\ crashed_at = "nowhere"

ScoreFrame ==
  UNCHANGED <<pc, exc, farewell, player_name, stats_file, leaderboard_file,
              rounds, ai_low, ai_high, ai_guesses, low, high, attempts,
              secret, truthful, efficiency, outcome, history, crashed_at>>

\* the same round won with one more attempt used
MoreAttempts ==
  /\ pc = "scored"
  /\ state.attempts_used < Difficulty[state.difficulty].max_attempts
  /\ state' = [state EXCEPT !.attempts_used = @ + 1]
  /\ score' = calculate_score(state', elapsed, stats.current_streak)
  /\ shown' = "more attempts"
  /\ UNCHANGED <<elapsed, stats>>
  /\ ScoreFrame

\* the same round won later
LaterFinish(e) ==
  /\ pc = "scored"
  /\ e > elapsed
  /\ elapsed' = e
  /\ score' = calculate_score(state, e, stats.current_streak)
  /\ shown' = "later finish"
  /\ UNCHANGED <<state, stats>>
  /\ ScoreFrame

\* the same round won on a streak longer by one
LongerStreak ==
  /\ pc = "scored"
  /\ stats.current_streak < MaxStreak
  /\ stats' = [stats EXCEPT !.current_streak = @ + 1]
  /\ score' = calculate_score(state, elapsed, stats'.current_streak)
  /\ shown' = "longer streak"
  /\ UNCHANGED <<state, elapsed>>
  /\ ScoreFrame

NextScore ==
  \/ MoreAttempts
  \/ \E e \in ScoreTimes : LaterFinish(e)
  \/ LongerStreak

SpecScore == InitScore /\ [][NextScore]_vars

\* ------------------------------------------------------------------------
\* Properties
\* ------------------------------------------------------------------------

\* what load_stats returns now
PersistedStats == load_stats(stats_file).value

SortedByScore(entries) ==
  \A i \in 1..(Len(entries) - 1) : entries[i].score >= entries[i + 1].score

Wins == {i \in 1..Len(history) : history[i] = "win"}

\* C1: once the session has saved the leaderboard, whatever the file held
\* before (nothing, no file, too many entries, entries out of order), the
\* stored leaderboard has at most 20 entries, in descending order of score
C1_LeaderboardInvariant ==
  Wins # {} =>
    /\ leaderboard_file.kind = "list"
    /\ Len(leaderboard_file.entries) <= LeaderboardCap
    /\ SortedByScore(leaderboard_file.entries)

\* two saves on top of a file that held more entries than the cap
C1_Witness ==
  /\ Cardinality(Wins) = 2
  /\ Len(leaderboard_file.entries) = LeaderboardCap
  /\ \E i \in 1..LeaderboardCap : leaderboard_file.entries[i].date = Today
  /\ \E i \in 1..LeaderboardCap : leaderboard_file.entries[i].date = "earlier"

\* C2: on a first run, after any rounds the persisted stats have
\* wins + losses = games_played
C2_StatsConsistency ==
  PersistedStats.wins + PersistedStats.losses = PersistedStats.games_played

\* a won round and a lost round have been recorded
C2_Witness ==
  /\ PersistedStats.wins = 1
  /\ PersistedStats.losses = 1
  /\ PersistedStats.games_played = 2

\* C3: in AI mode on [1, 100], for every number the user has in mind and
\* true responses, the AI has the number in its range, needs at most
\* 7 = ceil(log2(100)) guesses, never runs out of range, and its win is
\* reported as optimal
C3_AIModeOptimal ==
  (state.mode = GameMode.AI /\ pc \in {"ai_feedback", "return_prompt"} /\ truthful) =>
    /\ CeilLog2(100) = 7
    /\ attempts <= 7
    /\ outcome # "inconsistent"
    /\ low <= secret /\ secret <= high
    /\ outcome = "ai_found" =>
         next_guess(low, high) = secret /\ efficiency = "Optimal!"

\* a number that takes all seven guesses
C3_Witness ==
  /\ state.mode = GameMode.AI
  /\ outcome = "ai_found"
  /\ truthful
  /\ attempts = 7
  /\ efficiency = "Optimal!"

\* C4 as stated: on [1, N] with true responses the search guesses the
\* number after at most ceil(log2(N)) guesses
C4_Original ==
  (outcome = "ai_found" /\ truthful) => attempts <= CeilLog2(state.high)

\* C4 as amended: on [1, N] with true responses the search never runs out
\* of range and guesses the number after at most floor(log2(N)) + 1
\* = ceil(log2(N + 1)) guesses
C4_HalvingSearch ==
  truthful =>
    /\ attempts <= CeilLog2(state.high + 1)
    /\ outcome # "inconsistent"
    /\ low <= secret /\ secret <= high
    /\ outcome = "ai_found" => next_guess(low, high) = secret

\* a range whose size is a power of two, and a number that takes one guess
\* more than ceil(log2(N))
C4_Witness ==
  /\ outcome = "ai_found"
  /\ truthful
  /\ state.high = 64
  /\ attempts = CeilLog2(state.high) + 1

\* the wins at the end of the history of Classic and Duel rounds
TrailingWins(h) ==
  LET others == {i \in 1..Len(h) : h[i] # "win"}
  IN  IF others = {} THEN Len(h)
      ELSE Len(h) - (CHOOSE i \in others : \A j \in others : j <= i)

\* C5: between rounds the persisted current_streak is the number of
\* consecutive Classic or Duel wins since the last loss, AI win or draw:
\* each win raises it by exactly 1, each of the others resets it to 0
C5_StreakCountsWins ==
  pc \in {"menu", "return_prompt", "done"} =>
    PersistedStats.current_streak = TrailingWins(history)

\* C6: calculate_score does not rise when attempts_used rises, does not
\* rise when the elapsed time rises, and does not fall when the streak rises
C6_ScoreMonotone ==
  [][ /\ state'.attempts_used > state.attempts_used => score' <= score
      /\ elapsed' > elapsed => score' <= score
      /\ stats'.current_streak > stats.current_streak => score' >= score ]_vars

\* a score that has fallen with one more attempt used
C6_Witness ==
  /\ pc = "scored"
  /\ shown = "more attempts"
  /\ elapsed > 84000
  /\ stats.current_streak > 10
  /\ score < calculate_score([state EXCEPT !.attempts_used = @ - 1],
                             elapsed, stats.current_streak)

\* C7: a round won on Easy with 3 attempts used, 10 seconds elapsed and a
\* win streak of 0 is scored 78
C7_EasyRoundScore ==
  ( /\ pc = "win_update"
    /\ state.difficulty = "EASY"
    /\ state.attempts_used = 3
    /\ elapsed = 10000
    /\ PersistedStats.current_streak = 0 ) => score = 78

\* the three states of a file that C8 names
StatsFileDefective ==
  \/ stats_file.kind \in {"missing", "badjson"}
  \/ stats_file.kind = "object" /\ stats_file.absent # {}

LeaderboardFileDefective ==
  \/ leaderboard_file.kind \in {"missing", "badjson"}
  \/ leaderboard_file.kind = "list" /\ leaderboard_file.lacking # 0

\* C8: a file that is missing, is not valid JSON or lacks a required field
\* loads as the default: the zero-valued PlayerStats (here the stats object
\* a Duel win has just loaded) or the empty leaderboard
C8_DefectiveFileLoadsDefault ==
  /\ (pc = "win_update" /\ state.mode = GameMode.DUEL /\ StatsFileDefective) =>
       stats = PlayerStats
  /\ StatsFileDefective => load_stats(stats_file).exc = "none"
  /\ LeaderboardFileDefective =>
       load_leaderboard(leaderboard_file) = Returned(<<>>)

\* C9: whatever the two files hold, no operation fails: the program stops
\* with an exception only when the user interrupts or ends the input
C9_CorruptFilesNeverFail ==
  pc = "crashed" => exc \in {"KeyboardInterrupt", "EOFError"}

\* C10: an interrupt at a prompt never leaves the program as an uncaught
\* KeyboardInterrupt: the session ends with the farewell
C10_InterruptEndsGracefully ==
  (pc = "crashed" /\ crashed_at \in Prompts) => exc # "KeyboardInterrupt"

\* the leaderboard entries stored so far
PersistedEntries == load_leaderboard(leaderboard_file).value

\* C11: on a first run, wherever an interrupt ends the program, the stats
\* file and the leaderboard file agree on the rounds won: the wins counted
\* are the entries stored
C11_InterruptKeepsFilesTogether ==
  (pc = "crashed" /\ exc = "KeyboardInterrupt") =>
    PersistedStats.wins = Len(PersistedEntries)

\* what the prompts print on a line they do not accept
InvalidInputMessages ==
  {"Please enter a valid integer.", "Out of range!", "Enter a valid number.",
   "Pick 1-100.", "Invalid choice. Try again.", "Invalid choice. Enter 1-4.",
   "Enter H, L, or C."}

\* C12: a line a prompt does not accept (a guess that is not a number or
\* not in 1..100, an unknown menu or difficulty choice, an unknown response
\* in AI mode) is answered with a message and the same prompt, and changes
\* nothing else: the round (attempts_used, guess_history), the AI's ranges,
\* the stats file and the leaderboard file stay as they were; no guess
\* outside 1..100 is ever recorded
C12_InvalidInputChangesNothing ==
  /\ [][shown' \in InvalidInputMessages =>
          UNCHANGED <<pc, session, state, duel, aimode, files, ending, outcome,
                      history, exc>>]_vars
  /\ [](\A i \in 1..Len(state.guess_history) :
           state.guess_history[i] \in 1..100)

\* a Duel under way, with the AI's range narrowed, asking again after an
\* out-of-range guess
C12_Witness ==
  /\ pc = "guess"
  /\ shown = "Pick 1-100."
  /\ state.mode = GameMode.DUEL
  /\ state.attempts_used = 1
  /\ state.guess_history # <<>>
  /\ ai_low > 1
  /\ stats_file.kind = "object"

\* C13: in AI mode a response that empties the range (low > high) ends the
\* round on the spot with "Something doesn't add up!": the guess count stays
\* where it was, the program waits at main's return prompt, and neither file
\* is written during the round
C13_EmptyRangeEndsRound ==
  /\ []((state.mode = GameMode.AI /\ low > high) =>
          /\ outcome = "inconsistent"
          /\ shown = "Something doesn't add up!"
          /\ pc = "return_prompt")
  /\ [][(state.mode = GameMode.AI /\ low' > high') =>
          UNCHANGED <<attempts, files, history>>]_vars
  /\ [][outcome = "inconsistent" =>
          /\ UNCHANGED files
          /\ pc' \in {"menu", "crashed"}]_vars

\* the range emptied from above by Lower on the guess 1
C13_Witness ==
  /\ state.mode = GameMode.AI
  /\ outcome = "inconsistent"
  /\ pc = "return_prompt"
  /\ low = 1
  /\ high = 0
  /\ attempts = 6

\* the AI-mode round after Lower on the first guess, 50
AfterLowerOn50 ==
  /\ state.mode = GameMode.AI
  /\ pc = "ai_feedback"
  /\ low = 1 /\ high = 49 /\ attempts = 2

\* C14 as stated: Lower on the guess 50 and then Higher on the guess 25
\* leave low > high and end the round as inconsistent
C14_Original ==
  [][(AfterLowerOn50 /\ low' # low) =>
       (low' > high' /\ outcome' = "inconsistent")]_vars

\* C14 as amended: Lower on the guess 50 and then Higher on the guess 25
\* leave the range [26, 49] and the round goes on with the guess 37,
\* nothing persisted; the round ends as inconsistent exactly when the range
\* is empty, which takes at least six responses
C14_LowerThenHigher ==
  /\ [][(AfterLowerOn50 /\ low' # low) =>
          /\ low' = 26 /\ high' = 49
          /\ next_guess(low', high') = 37
          /\ attempts' = 3
          /\ pc' = "ai_feedback"
          /\ outcome' = "none"
          /\ UNCHANGED files]_vars
  /\ [](state.mode = GameMode.AI =>
          /\ (low > high) = (outcome = "inconsistent")
          /\ low > high => attempts >= 6)

\* the round after Lower on 50 and Higher on 25
C14_Witness ==
  /\ state.mode = GameMode.AI
  /\ pc = "ai_feedback"
  /\ low = 26 /\ high = 49 /\ attempts = 3
  /\ outcome = "none"

\* C15: in a Duel the AI never has more guesses than the human; when the
\* human's k-th guess is the answer the Duel ends there as the human's win,
\* the AI having made k - 1 guesses, none of them the answer
C15_HumanWinsBeforeAITurn ==
  state.mode = GameMode.DUEL =>
    /\ Len(ai_guesses) <= state.attempts_used
    /\ outcome = "win" =>
         /\ state.won
         /\ Len(ai_guesses) = state.attempts_used - 1
         /\ state.guess_history[state.attempts_used] = state.answer
         /\ \A i \in 1..Len(ai_guesses) : ai_guesses[i] # state.answer
         /\ pc \in {"win_update", "save_score", "return_prompt", "crashed"}

\* a Duel won with the third guess, after two turns of the AI
C15_Witness ==
  /\ state.mode = GameMode.DUEL
  /\ outcome = "win"
  /\ pc = "return_prompt"
  /\ state.attempts_used = 3
  /\ Len(ai_guesses) = 2

\* the human has used every attempt and neither side has guessed the answer
NobodyFound ==
  /\ attempts_remaining(state) = 0
  /\ \A i \in 1..Len(state.guess_history) : state.guess_history[i] # state.answer
  /\ \A i \in 1..Len(ai_guesses) : ai_guesses[i] # state.answer

\* C16: a Duel ends as a draw exactly when the human has used all
\* max_attempts guesses and neither the human nor the AI has guessed the
\* answer; the draw is stored as a loss: games_played + 1, losses + 1,
\* current_streak = 0, and no leaderboard entry
C16_DrawIsALoss ==
  /\ [](state.mode = GameMode.DUEL =>
          /\ outcome = "draw" => NobodyFound
          /\ (pc = "return_prompt" /\ NobodyFound) => outcome = "draw"
          /\ (pc = "guess" => ~NobodyFound))
  /\ [][(pc = "guess" /\ pc' = "return_prompt" /\ outcome' = "draw") =>
          /\ load_stats(stats_file').value =
               [PersistedStats EXCEPT
                  !.games_played = @ + 1,
                  !.losses = @ + 1,
                  !.total_guesses = @ + state'.attempts_used,
                  !.current_streak = 0]
          /\ UNCHANGED leaderboard_file]_vars

\* a draw on Hard: five misses by each side
C16_Witness ==
  /\ state.mode = GameMode.DUEL
  /\ state.difficulty = "HARD"
  /\ outcome = "draw"
  /\ pc = "return_prompt"
  /\ state.attempts_used = 5
  /\ Len(ai_guesses) = 5
  /\ PersistedStats.games_played = 1
  /\ PersistedStats.losses = 1
  /\ PersistedStats.current_streak = 0

\* C17: on a first run the leaderboard file holds one entry per round won,
\* in every state; the score is calculated only by the step that wins a
\* round, the file is written only by _save_score of a won round, which adds
\* one entry carrying that score, and a Classic loss, a Duel lost to the AI,
\* a draw and every AI-mode round leave the file as it was
C17_OneEntryPerWin ==
  /\ [](Len(leaderboard_file.entries) = Cardinality(Wins))
  /\ [][score' # score =>
          \/ pc = "guess" /\ pc' = "win_update" /\ outcome' = "win"
          \/ score' = 0 /\ pc' \in {"menu", "crashed"}]_vars
  /\ [][leaderboard_file' # leaderboard_file =>
          /\ pc = "save_score"
          /\ outcome = "win"
          /\ history' = Append(history, "win")
          /\ Len(leaderboard_file'.entries) = Len(leaderboard_file.entries) + 1
          /\ \E i \in 1..Len(leaderboard_file'.entries) :
               /\ leaderboard_file'.entries[i].score = score
               /\ leaderboard_file'.entries[i].player_name = player_name
               /\ leaderboard_file'.entries[i].guesses = state.attempts_used]_vars
  /\ [][(\/ outcome' \in {"loss", "ai_win", "draw", "ai_found", "inconsistent"}
         \/ state.mode = GameMode.AI) =>
          UNCHANGED <<leaderboard_file, score>>]_vars

\* a session of a lost round followed by a won round
C17_Witness ==
  /\ pc = "return_prompt"
  /\ Len(history) = 2
  /\ Cardinality(Wins) = 1
  /\ Len(leaderboard_file.entries) = 1
  /\ leaderboard_file.entries[1].score = score

\* C18: in every state of a Classic or Duel round 0 <= attempts_used <=
\* max_attempts and guess_history has attempts_used guesses; a guess is
\* recorded only while attempts remain, and counts as one attempt
C18_AttemptsWithinBudget ==
  /\ [](state.mode \in {GameMode.CLASSIC, GameMode.DUEL} =>
          /\ 0 <= state.attempts_used
          /\ state.attempts_used <= Difficulty[state.difficulty].max_attempts
          /\ attempts_remaining(state) >= 0
          /\ Len(state.guess_history) = state.attempts_used)
  /\ [][state'.guess_history # state.guess_history /\ state'.guess_history # <<>> =>
          /\ attempts_remaining(state) > 0
          /\ state'.attempts_used = state.attempts_used + 1
          /\ Len(state'.guess_history) = Len(state.guess_history) + 1]_vars

\* a Classic round on Easy lost with the fifteenth guess
C18_Witness ==
  /\ state.mode = GameMode.CLASSIC
  /\ state.difficulty = "EASY"
  /\ state.attempts_used = 15
  /\ attempts_remaining(state) = 0
  /\ Len(state.guess_history) = 15
  /\ outcome = "loss"

\* C19: a Classic round ends in exactly one way, as a win or as a loss and
\* never as a draw: it is won exactly when the last recorded guess is the
\* answer and lost exactly when max_attempts guesses are recorded and none is
\* the answer; once it has ended no guess is recorded and the outcome stands
C19_ClassicOutcome ==
  /\ [](state.mode = GameMode.CLASSIC =>
          /\ outcome \in {"none", "win", "loss"}
          /\ (outcome = "win") =
               ( /\ state.attempts_used > 0
                 /\ state.guess_history[state.attempts_used] = state.answer )
          /\ (outcome = "loss") =
               ( /\ state.attempts_used = Difficulty[state.difficulty].max_attempts
                 /\ \A i \in 1..Len(state.guess_history) :
                      state.guess_history[i] # state.answer )
          /\ (outcome = "win") = state.won
          /\ outcome # "none" => pc # "guess")
  /\ [][(state.mode = GameMode.CLASSIC /\ outcome # "none") =>
          /\ outcome' \in {outcome, "none"}
          /\ state' \in {state, NoRound}]_vars

\* a Classic round on Easy won with the last attempt
C19_Witness ==
  /\ state.mode = GameMode.CLASSIC
  /\ state.difficulty = "EASY"
  /\ outcome = "win"
  /\ attempts_remaining(state) = 0
  /\ pc = "return_prompt"

\* how often entry x occurs in entries
Count(x, entries) == Cardinality({i \in 1..Len(entries) : entries[i] = x})

\* the step in which _save_score writes the leaderboard
SaveStep == pc = "save_score" /\ pc' = "return_prompt"

\* the entry _save_score builds in that step
NewEntry ==
  LeaderboardEntry(player_name, score, Difficulty[state.difficulty].label,
                   state.mode, state.attempts_used, Round2(elapsed'), Today)

\* stored holds the first LeaderboardCap of all by descending score: it is
\* sorted, has as many entries as the cap allows, takes them from all, and
\* leaves out none that scores more than one it holds
FirstByScore(all, stored) ==
  /\ SortedByScore(stored)
  /\ Len(stored) = Min(LeaderboardCap, Len(all))
  /\ \A i \in 1..Len(stored) : Count(stored[i], stored) <= Count(stored[i], all)
  /\ \A i \in 1..Len(all) :
       Count(all[i], stored) < Count(all[i], all) =>
         \A j \in 1..Len(stored) : stored[j].score >= all[i].score

\* the new entry is in the stored file
Kept(prev, new, stored) == Count(new, stored) = Count(new, prev) + 1

\* no stored score is below s
LowestScore(prev, s) == \A i \in 1..Len(prev) : prev[i].score >= s

\* C20 as stated: a save stores the first 20 of the stored entries plus the
\* new one by descending score, and the new entry is kept whenever fewer
\* than 20 entries were stored or its score is strictly greater than the
\* lowest stored score
C20_Original ==
  [][SaveStep =>
       LET prev == PersistedEntries
           new == NewEntry
           stored == leaderboard_file'.entries
       IN  /\ FirstByScore(Append(prev, new), stored)
           /\ (Len(prev) < LeaderboardCap \/ ~LowestScore(prev, new.score)) =>
                Kept(prev, new, stored)]_vars

\* C20 as amended: a save stores the first 20 of the stored entries plus the
\* new one by descending score, nothing beyond the 20th; the new entry is
\* kept exactly when fewer than 20 of the stored entries score at least as
\* much as it does, so whenever fewer than 20 were stored, and when exactly
\* 20 were stored, whenever it scores strictly more than the lowest of them
C20_SaveKeepsTopTwenty ==
  [][SaveStep =>
       LET prev == PersistedEntries
           new == NewEntry
           stored == leaderboard_file'.entries
           ahead == {i \in 1..Len(prev) : prev[i].score >= new.score}
       IN  /\ leaderboard_file'.kind = "list"
           /\ leaderboard_file'.lacking = 0
           /\ FirstByScore(Append(prev, new), stored)
           /\ Len(stored) <= LeaderboardCap
           /\ Kept(prev, new, stored) = (Cardinality(ahead) < LeaderboardCap)
           /\ Len(prev) < LeaderboardCap => Kept(prev, new, stored)
           /\ (Len(prev) = LeaderboardCap /\ ~LowestScore(prev, new.score)) =>
                Kept(prev, new, stored)]_vars

\* a full board after a win: the new entry stored in eleventh place, above
\* the entries it ties or beats, and an earlier entry in the last place
C20_Witness ==
  /\ pc = "return_prompt"
  /\ outcome = "win"
  /\ Len(leaderboard_file.entries) = LeaderboardCap
  /\ leaderboard_file.entries[11].date = Today
  /\ leaderboard_file.entries[11].score = score
  /\ leaderboard_file.entries[LeaderboardCap].date = "earlier"

\* the smaller of a stored best_time and a time, None standing for no time
MinTime(best, t) == IF best = NoneVal \/ t < best THEN t ELSE best

\* C21: from default stats, best_time is None exactly while no round has
\* been won; a won round leaves it at the smaller of what it was and the
\* round's elapsed time rounded to 2 decimals, so that it is the smallest
\* such time of all rounds won; a lost round leaves it as it was
C21_BestTimeIsSmallest ==
  /\ []((PersistedStats.best_time = NoneVal) = (PersistedStats.wins = 0))
  /\ [][(pc = "win_update" /\ pc' = "save_score") =>
          load_stats(stats_file').value.best_time =
            MinTime(PersistedStats.best_time, Round2(elapsed'))]_vars
  /\ [][outcome' \in {"loss", "ai_win", "draw"} =>
          load_stats(stats_file').value.best_time = PersistedStats.best_time]_vars

\* C22: on a first run, whenever the program is back from a round the
\* persisted games_played is the number of Classic and Duel rounds played to
\* their end, each counted once whatever its outcome; an AI-mode round
\* leaves the stats file as it was
C22_GamesPlayedCountsRounds ==
  /\ [](pc \in {"menu", "return_prompt", "done"} =>
          PersistedStats.games_played = Len(history))
  /\ [][history' # history =>
          /\ Len(history') = Len(history) + 1
          /\ load_stats(stats_file').value.games_played = Len(history')
          /\ pc' = "return_prompt"]_vars
  /\ [][state.mode = GameMode.AI => UNCHANGED stats_file]_vars

\* back at the menu after an AI-mode round and a Classic or Duel round
C22_Witness ==
  /\ pc = "menu"
  /\ rounds = 2
  /\ Len(history) = 1
  /\ PersistedStats.games_played = 1

\* C23: in a Duel the answer is always inside the AI's range, so the range
\* is never empty; every guess of the AI is in 1..100 and the AI never
\* makes the same guess twice
C23_AnswerInsideAIRange ==
  (state.mode = GameMode.DUEL /\ pc # "difficulty") =>
    /\ ai_low <= state.answer /\ state.answer <= ai_high
    /\ ai_low <= ai_high
    /\ 1 <= ai_low /\ ai_high <= 100
    /\ \A i \in 1..Len(ai_guesses) : ai_guesses[i] \in 1..100
    /\ \A i, j \in 1..Len(ai_guesses) : i # j => ai_guesses[i] # ai_guesses[j]

\* a Duel in which six guesses have left the AI a range of one number
C23_Witness ==
  /\ state.mode = GameMode.DUEL
  /\ pc = "guess"
  /\ Len(ai_guesses) = 6
  /\ ai_low = ai_high
  /\ ai_low = state.answer

\* C24: a Duel on Easy or Medium never ends as a draw: whatever the answer
\* and the human's guesses, it is over, won by the human or by the AI, after
\* at most 7 turn pairs
C24_NoDrawOnEasyOrMedium ==
  ( /\ state.mode = GameMode.DUEL
    /\ pc # "difficulty"
    /\ state.difficulty \in {"EASY", "MEDIUM"} ) =>
      /\ outcome \in {"none", "win", "ai_win"}
      /\ state.attempts_used <= 7
      /\ Len(ai_guesses) <= 7
      /\ pc = "guess" => state.attempts_used < 7
      /\ attempts_remaining(state) > 0

\* a Duel on Medium that the AI wins with its seventh guess
C24_Witness ==
  /\ state.mode = GameMode.DUEL
  /\ state.difficulty = "MEDIUM"
  /\ outcome = "ai_win"
  /\ pc = "return_prompt"
  /\ state.attempts_used = 7
  /\ Len(ai_guesses) = 7

\* C25: an AI-mode round never has more than 7 guesses, whatever the
\* responses, true or not: each Higher or Lower makes the range strictly
\* smaller, each accepted response either ends the round or brings the next
\* guess, and the round ends on Correct or with the range empty
C25_AIModeEndsWithinSeven ==
  /\ [](state.mode = GameMode.AI =>
          /\ attempts <= 7
          /\ pc = "return_prompt" =>
               /\ outcome \in {"ai_found", "inconsistent"}
               /\ (outcome = "inconsistent") = (low > high))
  /\ [][(pc = "ai_feedback" /\ pc' \in {"ai_feedback", "return_prompt"}) =>
          /\ (low' # low \/ high' # high) => high' - low' < high - low
          /\ shown' # "Enter H, L, or C." =>
               \/ pc' = "return_prompt"
               \/ attempts' = attempts + 1 /\ high' - low' < high - low]_vars

\* Higher on each of seven guesses, the last of them 100
C25_Witness ==
  /\ state.mode = GameMode.AI
  /\ pc = "return_prompt"
  /\ outcome = "inconsistent"
  /\ attempts = 7
  /\ low = 101
  /\ ~truthful

\* C26: a won round is scored from its difficulty, its attempts_used, its
\* elapsed time and the current_streak persisted before the round, in
\* Classic as in Duel: the score is calculate_score of the round with the
\* persisted streak, the value a Duel passes
C26_SameScoreInBothModes ==
  (pc = "win_update" /\ state.mode \in {GameMode.CLASSIC, GameMode.DUEL}) =>
    score = calculate_score(state, elapsed, PersistedStats.current_streak)

\* C27: from default stats the persisted best_streak >= current_streak >= 0
\* in every state; best_streak never falls, and every save leaves it at the
\* larger of what it was and the current_streak saved, so that it is the
\* largest value current_streak has held
C27_BestStreakIsLargest ==
  /\ [](/\ PersistedStats.current_streak >= 0
        /\ PersistedStats.best_streak >= PersistedStats.current_streak)
  /\ [][/\ load_stats(stats_file').value.best_streak >= PersistedStats.best_streak
        /\ load_stats(stats_file').value.best_streak =
             Max(PersistedStats.best_streak,
                 load_stats(stats_file').value.current_streak)]_vars

\* a win followed by a loss: the streak is back at 0, the best streak stays
C27_Witness ==
  /\ pc = "menu"
  /\ history = <<"win", "loss">>
  /\ PersistedStats.current_streak = 0
  /\ PersistedStats.best_streak > 0

\* the entries with score s, in the order they have in entries
WithScore(entries, s) == SelectSeq(entries, LAMBDA e : e.score = s)

IsPrefix(a, b) == Len(a) <= Len(b) /\ a = SubSeq(b, 1, Len(a))

\* C28: a save keeps entries of equal score in the order they had, stored
\* entries first and the new entry last, and cuts from the end of that
\* order; so when 20 entries are stored and the new entry's score equals
\* the lowest stored score, the new entry is the one left out
C28_TiesFavourEarlierEntries ==
  [][SaveStep =>
       LET prev == PersistedEntries
           new == NewEntry
           all == Append(prev, new)
           stored == leaderboard_file'.entries
       IN  /\ \A i \in 1..Len(all) :
                IsPrefix(WithScore(stored, all[i].score),
                         WithScore(all, all[i].score))
           /\ ( /\ Len(prev) = LeaderboardCap
                /\ LowestScore(prev, new.score)
                /\ \E i \in 1..Len(prev) : prev[i].score = new.score ) =>
                  /\ ~Kept(prev, new, stored)
                  /\ \A i \in 1..Len(prev) : Count(prev[i], stored) = Count(prev[i], prev)]_vars

\* a full board whose lowest score is 275, after a win that scores 275: the
\* board is as it was
C28_Witness ==
  /\ pc = "return_prompt"
  /\ outcome = "win"
  /\ score = 275
  /\ leaderboard_file.entries = FullBoard
  /\ FullBoard[LeaderboardCap].score = 275

\* ------------------------------------------------------------------------
\* A round whose input has ended
\* ------------------------------------------------------------------------

\* a Classic or Duel round at its first guess prompt, as choose_difficulty
\* and random.randint leave it
InitEof ==
  \E m \in {GameMode.CLASSIC, GameMode.DUEL} : \E d \in DOMAIN Difficulty :
    \E answer \in 1..100 :
      /\ pc = "guess"
      /\ exc = "none"
      /\ farewell = FALSE
      /\ player_name = "Ann"
      /\ stats_file = MissingStats
      /\ leaderboard_file = MissingLeaderboard
      /\ rounds = 1
      /\ state = GameState(m, d, answer)
      /\ ai_low = 1
      /\ ai_high = 100
      /\ ai_guesses = <<>>
      /\ low = 1
      /\ high = 100
      /\ attempts = 0
      /\ secret = 0
      /\ truthful = TRUE
      /\ efficiency = ""
      /\ stats = PlayerStats
      /\ score = 0
      /\ elapsed = 0
      /\ outcome = "none"
      /\ history = <<>>
      /\ shown = ""
      /\ crashed_at = "nowhere"

\* every input() from here on raises EOFError; a pass of the guess loop on
\* EOFError changes nothing but the line shown, so from the second pass on
\* the loop takes the state to itself
NextEof ==
  \/ ClassicGuess(EofLine)
  \/ DuelGuess(EofLine)

\* the program goes on running whenever it can
SpecEof == InitEof /\ [][NextEof]_vars /\ WF_vars(NextEof)

\* C29: a Classic or Duel round whose input has ended at a guess prompt
\* comes to an end: the program does not stay at the guess prompt forever
C29_EndOfInputEndsRound == <>(pc # "guess")

\* ------------------------------------------------------------------------
\* The simple game (number_guessing_enhanced.py)
\* ------------------------------------------------------------------------

\* the attempts game_difficulty returns
SimpleLimit == [easy |-> 10, hard |-> 5]

\* what is typed at the difficulty prompt, stripped and in lower case
SimpleDifficultyInputs == {"easy", "hard", "medium"}

\* the integers typed at the guess prompt: all of the range and one on
\* either side of it
SimpleGuesses == 0..101

\* game_engine's return value, None on an out-of-range guess and on the
\* right one; remaining stands for its parameter attempts, and
\* attempts - 1 raises TypeError when attempts is None
game_engine(number, guess, remaining) ==
  IF guess > 100 \/ guess < 1 THEN Returned(NoneVal)
  ELSE IF guess # number
       THEN IF remaining = NoneVal THEN Raised("TypeError", NoneVal)
            ELSE Returned(remaining - 1)
       ELSE Returned(NoneVal)

\* the line game_engine prints
game_engine_message(number, guess) ==
  IF guess > 100 \/ guess < 1 THEN "Out of range!"
  ELSE IF guess > number THEN "Too high!"
  ELSE IF guess < number THEN "Too low!"
  ELSE "Hooray!"

\* play_game's locals, held in state
SimpleRound(number, difficulty, remaining) ==
  [selected_number |-> number, difficulty |-> difficulty,
   user_attempts |-> remaining]

SimpleFrame ==
  UNCHANGED <<farewell, player_name, stats_file, leaderboard_file, rounds,
              ai_low, ai_high, ai_guesses, low, high, attempts, secret,
              truthful, efficiency, stats, score, elapsed, history>>

\* play_game has drawn its number and calls game_difficulty
InitSimple ==
  \E number \in 1..100 :
    /\ pc = "simple_difficulty"
    /\ exc = "none"
    /\ farewell = FALSE
    /\ player_name = ""
    /\ stats_file = MissingStats
    /\ leaderboard_file = MissingLeaderboard
    /\ rounds = 1
    /\ state = SimpleRound(number, "", NoneVal)
    /\ ai_low = 1
    /\ ai_high = 100
    /\ ai_guesses = <<>>
    /\ low = 1
    /\ high = 100
    /\ attempts = 0
    /\ secret = 0
    /\ truthful = TRUE
    /\ efficiency = ""
    /\ stats = PlayerStats
    /\ score = 0
    /\ elapsed = 0
    /\ outcome = "none"
    /\ history = <<>>
    /\ shown = ""
    /\ crashed_at = "nowhere"

game_difficulty(difficulty) ==
  /\ pc = "simple_difficulty"
  /\ IF difficulty \in DOMAIN SimpleLimit
     THEN /\ state' = [state EXCEPT !.difficulty = difficulty,
                                    !.user_attempts = SimpleLimit[difficulty]]
          /\ pc' = "simple_guess"
          /\ shown' = ""
     ELSE /\ shown' = "Invalid Input Inserted"
          /\ UNCHANGED <<state, pc>>
  /\ UNCHANGED <<exc, crashed_at, outcome>>
  /\ SimpleFrame

\* one pass of play_game's loop on an integer guess
play_game(user_guess) ==
  /\ pc = "simple_guess"
  /\ LET r == game_engine(state.selected_number, user_guess, state.user_attempts)
     IN  IF r.exc # "none"
         THEN Crash(r.exc) /\ UNCHANGED <<state, outcome>>
         ELSE /\ state' = [state EXCEPT !.user_attempts = r.value]
              /\ shown' = game_engine_message(state.selected_number, user_guess)
              /\ IF user_guess = state.selected_number
                 THEN pc' = "simple_done" /\ outcome' = "win"
                 ELSE IF r.value = 0
                      THEN pc' = "simple_done" /\ outcome' = "loss"
                      ELSE UNCHANGED <<pc, outcome>>
              /\ UNCHANGED <<exc, crashed_at>>
  /\ SimpleFrame

NextSimple ==
  \/ \E difficulty \in SimpleDifficultyInputs : game_difficulty(difficulty)
  \/ \E user_guess \in SimpleGuesses : play_game(user_guess)

SpecSimple == InitSimple /\ [][NextSimple]_vars

\* C30: in the simple game the remaining-attempts counter stays an integer
\* between 0 and the chosen limit on every sequence of integer guesses; an
\* out-of-range guess leaves it unchanged, a wrong in-range guess lowers it
\* by 1, and the round ends as a win on the right guess or as a loss
\* exactly when the counter reaches 0, never in an error
C30_AttemptsStayCounted ==
  /\ [](exc = "none")
  /\ [](pc = "simple_guess" =>
          state.user_attempts \in 1..SimpleLimit[state.difficulty])
  /\ []((pc = "simple_done" /\ outcome = "loss") => state.user_attempts = 0)
  /\ [](pc = "simple_done" => outcome \in {"win", "loss"})
  /\ [][(pc = "simple_guess" /\ shown' = "Out of range!") =>
          /\ pc' = "simple_guess"
          /\ state'.user_attempts = state.user_attempts]_vars
  /\ [][(pc = "simple_guess" /\ shown' \in {"Too high!", "Too low!"}) =>
          /\ state'.user_attempts = state.user_attempts - 1
          /\ (pc' = "simple_done") = (state'.user_attempts = 0)]_vars
  /\ [][(pc = "simple_guess" /\ shown' = "Hooray!") =>
          (pc' = "simple_done" /\ outcome' = "win")]_vars

====
